---- MODULE Spec2Model ----
(***************************************************************************)
(* A model of FileIPC (src/ipc.ts): the file-backed mailbox, its watcher,  *)
(* its validation of raw entries and its delivery queue.                   *)
(*                                                                         *)
(* JavaScript values are records tagged by the field t.  Time is counted   *)
(* in milliseconds, the unit of Date.now() and of toISOString().           *)
(***************************************************************************)
EXTENDS Integers, Sequences, FiniteSets, TLC

VARIABLES
    \* one parse-and-validate run on drawn inputs (SpecValidate)
    vContent, vNow, vOut, vpc,
    \* the clock (Date.now()) and the mailbox file
    now, file,
    \* the handle's fields
    aborted, watcher, messageQueue,
    \* the directory watches created, the events each still holds, and the
    \* position of each startWatching call
    watch, ev, swpc,
    \* the extractMessages calls under way and the debounce timers pending
    jobs,
    \* the receiveData generators, the sendData calls and the close call
    recv, snd, closePc,
    \* counters of the sends begun and of the environment's disturbances
    sends, disturb,
    \* history: which send wrote each entry of the file, how often each send's
    \* entry was pushed in a batch, the batches pushed and yielded, the time
    \* since the watcher's last modify event and whether a debounced
    \* extraction has started since
    fileIds, delivered, pushed, yielded, quiet, ranSinceEvent,
    \* history: the string and the timestamp of every entry sendData built
    sentLog

vvars == <<vContent, vNow, vOut, vpc>>
hvars == <<now, file, aborted, watcher, messageQueue, watch, ev, swpc,
           jobs, recv, snd, closePc, sends, disturb,
           fileIds, delivered, pushed, yielded, quiet, ranSinceEvent, sentLog>>
vars == <<vvars, hvars>>

(***************************************************************************)
(* Bounds of the model and constants of the program.                       *)
(***************************************************************************)
\* the latest instant of the clock
MaxTime == 2
\* the longest data array of a drawn mailbox file
MaxEntries == 2

\* the sendData calls of one run
MaxSends == 2
\* the disturbances of one run: an I/O failure, another program's write of the
\* file, a repeated modify event
MaxDisturb == 1

\* public MAX_DATA_LENGTH = 1024
MAX_DATA_LENGTH == 1024
\* new FileIPC(path, 1, 2): the constructor's staleMessageLimitMs argument
staleMessageLimitMs == 1
\* new FileIPC(path, 1, 2): the constructor's debounceTimeMs argument
debounceTimeMs == 2

Times == 0..MaxTime

(***************************************************************************)
(* JavaScript values.                                                      *)
(***************************************************************************)
Undefined == [t |-> "undefined"]
Null == [t |-> "null"]
NaN == [t |-> "NaN"]
Num(n) == [t |-> "number", v |-> n]
\* the string made of ch repeated n times, as "x".repeat(n)
Rep(ch, n) == [t |-> "string", k |-> "rep", ch |-> IF n = 0 THEN "" ELSE ch, n |-> n]
\* the string new Date(ms).toISOString(), e.g. "1970-01-01T00:00:00.002Z"
IsoString(ms) == [t |-> "string", k |-> "iso", ch |-> "", n |-> ms]
\* the decimal digits of n, e.g. "123"
Digits(n) == [t |-> "string", k |-> "int", ch |-> "", n |-> n]
\* new Date(ms), and the Invalid Date new Date(NaN)
DateOf(ms) == [t |-> "Date", time |-> ms]
InvalidDate == [t |-> "InvalidDate"]
\* a decoded JSON object carrying (some of) the keys pid, sent and data
Obj(p, s, d) == [t |-> "object", pid |-> p, sent |-> s, data |-> d]

\* String.prototype.length
Length(s) == IF s.k = "rep" THEN s.n
             ELSE IF s.k = "iso" THEN 24
             ELSE IF s.n < 10 THEN 1 ELSE IF s.n < 100 THEN 2 ELSE 3

\* reading property key of a value: a TypeError on null and undefined
PropThrows(m) == m.t \in {"null", "undefined"}

Prop(m, key) ==
    IF m.t # "object" THEN Undefined
    ELSE IF key = "pid" THEN m.pid
    ELSE IF key = "sent" THEN m.sent
    ELSE m.data

\* parseInt(x): the leading integer of ToString(x), NaN when there is none
\* (an ISO string of the model's instants starts with the year 1970)
ParseInt(x) ==
    IF x.t = "number" THEN Num(x.v)
    ELSE IF x.t = "string" /\ x.k = "int" THEN Num(x.n)
    ELSE IF x.t = "string" /\ x.k = "iso" THEN Num(1970)
    ELSE NaN

\* new Date(Date.parse(x)): the instant of an ISO string, Invalid Date otherwise
ParseDate(x) ==
    IF x.t = "string" /\ x.k = "iso" THEN DateOf(x.n) ELSE InvalidDate

\* JavaScript's !x
Falsy(x) ==
    \/ x.t \in {"undefined", "null", "NaN"}
    \/ x.t = "string" /\ Length(x) = 0
    \/ x.t = "number" /\ x.v = 0

(***************************************************************************)
(* Validation of one raw entry (extractMessages, the body of its loop).    *)
(***************************************************************************)
ErrPid == "Invalid data received: pid"
ErrSent == "Invalid data received: sent"
ErrMissing == "Invalid data received: missing"
ErrNotString == "Invalid data received: not string"
ErrTooLong == "Invalid data received: too long"
ErrStale == "Invalid data received: stale"

\* try { validatedPid = parseInt(messageObj.pid) } catch { errors.push(...) }
ValidatePid(m) ==
    IF PropThrows(m) THEN [val |-> Null, errs |-> <<ErrPid>>]
    ELSE [val |-> ParseInt(Prop(m, "pid")), errs |-> <<>>]

\* try { validatedSent = new Date(Date.parse(messageObj.sent)) } catch { ... }
ValidateSent(m) ==
    IF PropThrows(m) THEN [val |-> Null, errs |-> <<ErrSent>>]
    ELSE [val |-> ParseDate(Prop(m, "sent")), errs |-> <<>>]

\* NotStale with > for >=: an entry exactly staleMessageLimitMs old is stale
NotStaleStrict(validatedSent, dateNow) ==
    /\ validatedSent # Null
    /\ validatedSent.t = "Date"
    /\ validatedSent.time > dateNow - staleMessageLimitMs

\* validatedSent !== null && validatedSent.getTime() >= Date.now() - limit
\* (getTime() of an Invalid Date is NaN, and NaN >= x is false)
NotStale(validatedSent, dateNow) ==
    /\ validatedSent # Null
    /\ validatedSent.t = "Date"
    /\ validatedSent.time >= dateNow - staleMessageLimitMs

\* ValidateData with > for >= in the length test
ValidateDataOffByOne(m, validatedSent, dateNow) ==
    IF NotStale(validatedSent, dateNow)
    THEN LET d == Prop(m, "data") IN
         IF Falsy(d) THEN [val |-> Null, errs |-> <<ErrMissing>>]
         ELSE IF d.t # "string" THEN [val |-> Null, errs |-> <<ErrNotString>>]
         ELSE IF Length(d) > MAX_DATA_LENGTH THEN [val |-> Null, errs |-> <<ErrTooLong>>]
         ELSE [val |-> d, errs |-> <<>>]
    ELSE [val |-> Null, errs |-> <<ErrStale>>]

\* the if / else if chain on messageObj.data, and the stale branch
ValidateData(m, validatedSent, dateNow) ==
    IF NotStale(validatedSent, dateNow)
    THEN LET d == Prop(m, "data") IN
         IF Falsy(d) THEN [val |-> Null, errs |-> <<ErrMissing>>]
         ELSE IF d.t # "string" THEN [val |-> Null, errs |-> <<ErrNotString>>]
         ELSE IF Length(d) >= MAX_DATA_LENGTH THEN [val |-> Null, errs |-> <<ErrTooLong>>]
         ELSE [val |-> d, errs |-> <<>>]
    ELSE [val |-> Null, errs |-> <<ErrStale>>]

\* an exception leaving the loop's body
Thrown == [thrown |-> TRUE]

\* ValidateEntry without the try around the reads of messageObj.pid and
\* messageObj.sent: a null entry throws out of the loop
ValidateEntryUnguarded(m, dateNow) ==
    IF PropThrows(m) THEN Thrown
    ELSE LET s == ParseDate(Prop(m, "sent"))
             d == ValidateData(m, s, dateNow)
         IN [pid |-> ParseInt(Prop(m, "pid")), sent |-> s, data |-> d.val,
             errors |-> d.errs]

\* one pass of the loop: the IpcValidatedMessage pushed for messageObj
ValidateEntry(m, dateNow) ==
    LET p == ValidatePid(m)
        s == ValidateSent(m)
        d == ValidateData(m, s.val, dateNow)
    IN [pid |-> p.val, sent |-> s.val, data |-> d.val,
        errors |-> p.errs \o s.errs \o d.errs]

(***************************************************************************)
(* The mailbox file's content, and what extractMessages makes of it.       *)
(***************************************************************************)
\* zero bytes
EmptyContent == [k |-> "empty", data |-> <<>>]
\* bytes that are no JSON
MalformedContent == [k |-> "malformed", data |-> <<>>]
\* JSON whose value has no array under "data" (null, {}, [], {"data": 1})
NoDataContent == [k |-> "nodata", data |-> <<>>]
\* {"data": [ ... ]}
Mailbox(entries) == [k |-> "mailbox", data |-> entries]

\* lines 136-193: JSON.parse of the bytes read (a Uint8Array is always truthy,
\* so the else branch is never taken), the loop, and the catch around both
ParseMessages(content, dateNow) ==
    IF content.k # "mailbox"
    THEN [ok |-> FALSE, msgs |-> <<>>]
    ELSE LET out == [i \in 1..Len(content.data) |-> ValidateEntry(content.data[i], dateNow)] IN
         IF \E i \in 1..Len(out) : out[i] = Thrown
         THEN [ok |-> FALSE, msgs |-> <<>>]
         ELSE [ok |-> TRUE, msgs |-> out]

\* lines 221-225: the entry sendData pushes
SendEntry(pid, data, dateNow) == Obj(Num(pid), IsoString(dateNow), data)

(***************************************************************************)
(* The handle: its state after construction.                               *)
(***************************************************************************)
Receivers == {1, 2}
\* sender 1 calls sendData on the handle itself, sender 2 is another process
Senders == {1, 2}
\* the strings handed to sendData
SendData == {Rep("a", 1), Rep("", 0), Rep("x", MAX_DATA_LENGTH)}
MainData == {Rep("a", 1)}

NoFile == [k |-> "absent", data |-> <<>>]
IdleSend == [pc |-> "idle", data |-> Undefined, doc |-> NoFile, ids |-> <<>>,
             id |-> 0, closedAtCall |-> FALSE, overlapped |-> FALSE,
             outcome |-> "none"]

InitHandle ==
    /\ now = 0
    /\ file = NoFile
    /\ fileIds = <<>>
    /\ aborted = FALSE
    /\ watcher = 0
    /\ messageQueue = <<>>
    /\ watch = [r \in Receivers |-> "none"]
    /\ ev = [r \in Receivers |-> 0]
    /\ swpc = [r \in Receivers |-> "none"]
    /\ jobs = <<>>
    /\ recv = [r \in Receivers |-> [pc |-> "new", left |-> 0]]
    /\ snd = [s \in Senders |-> IdleSend]
    /\ closePc = "none"
    /\ sends = 0
    /\ disturb = 0
    /\ delivered = [i \in 1..MaxSends |-> 0]
    /\ pushed = 0
    /\ yielded = <<>>
    /\ quiet = debounceTimeMs
    /\ ranSinceEvent = FALSE
    /\ sentLog = <<>>

IdleValidate ==
    /\ vContent = EmptyContent
    /\ vNow = 0
    /\ vOut = [ok |-> FALSE, msgs |-> <<>>]
    /\ vpc = "off"

Init == InitHandle /\ IdleValidate

(***************************************************************************)
(* Helpers on sequences and on the file system.                            *)
(***************************************************************************)
RemoveAt(q, i) == [j \in 1..(Len(q) - 1) |-> IF j < i THEN q[j] ELSE q[j + 1]]

\* a write of the mailbox file reports one modify event to every open watch
Notify(e) == [r \in Receivers |-> IF watch[r] = "open" THEN e[r] + 1 ELSE e[r]]

\* the environment may make one I/O call fail
MayFail == disturb < MaxDisturb

(***************************************************************************)
(* sendData (lines 206-233).                                               *)
(***************************************************************************)
\* unshift for push: the new entry goes first
UnshiftEntry(data, entry) == <<entry>> \o data

\* messages = { data: [entry] }: what was read is dropped
OnlyEntry(data, entry) == <<entry>>

\* messages.data.push(entry)
PushEntry(data, entry) == Append(data, entry)

\* the other senders with a sendData call under way
Busy(s) == {t \in Senders \ {s} : snd[t].pc # "idle"}

\* the call and its await of mkdir, which resolves; overlapped records, for
\* each sender, whether a call of its own ever ran while another sender's did
SendCall(s, d) ==
    /\ snd[s].pc = "idle"
    /\ sends < MaxSends
    /\ sends' = sends + 1
    /\ snd' = [t \in Senders |->
                 IF t = s
                 THEN [IdleSend EXCEPT !.pc = "read", !.data = d,
                          !.id = sends + 1, !.closedAtCall = (s = 1 /\ aborted),
                          !.overlapped = (snd[s].overlapped \/ Busy(s) # {})]
                 ELSE IF t \in Busy(s) THEN [snd[t] EXCEPT !.overlapped = TRUE]
                 ELSE snd[t]]
    /\ UNCHANGED <<now, file, fileIds, aborted, watcher, messageQueue, watch,
                   ev, swpc, jobs, recv, closePc, disturb, delivered, pushed, yielded,
                   quiet, ranSinceEvent, sentLog, vvars>>

\* the call and its await of mkdir, which rejects: it stands outside the try,
\* so sendData rejects
SendMkdirFails(s, d) ==
    /\ snd[s].pc = "idle"
    /\ sends < MaxSends
    /\ MayFail
    /\ sends' = sends + 1
    /\ disturb' = disturb + 1
    /\ snd' = [snd EXCEPT ![s] = [IdleSend EXCEPT !.data = d, !.id = sends + 1,
                   !.closedAtCall = (s = 1 /\ aborted),
                   !.overlapped = snd[s].overlapped, !.outcome = "threw"]]
    /\ UNCHANGED <<now, file, fileIds, aborted, watcher, messageQueue, watch,
                   ev, swpc, jobs, recv, closePc, delivered, pushed, yielded,
                   quiet, ranSinceEvent, sentLog, vvars>>

\* what sendData does with the outcome of readFile: got is the content read,
\* or NoFile when readFile rejected (the rejection is ignored); JSON.parse,
\* push and JSON.stringify then run without a pause, and an exception of
\* theirs is caught and logged
AfterRead(s, got, gotIds) ==
    IF got.k \notin {"absent", "mailbox"}
    THEN /\ snd' = [snd EXCEPT ![s].pc = "idle", ![s].outcome = "failed"]
         /\ UNCHANGED sentLog
    ELSE /\ snd' = [snd EXCEPT ![s].pc = "write",
                       ![s].doc = Mailbox(PushEntry(got.data, SendEntry(s, snd[s].data, now))),
                       ![s].ids = PushEntry(gotIds, snd[s].id)]
         /\ sentLog' = Append(sentLog, [data |-> snd[s].data, at |-> now])

\* readFile resolves, or rejects on an absent file
SendRead(s) ==
    /\ snd[s].pc = "read"
    /\ AfterRead(s, file, fileIds)
    /\ UNCHANGED <<now, file, fileIds, aborted, watcher, messageQueue, watch,
                   ev, swpc, jobs, recv, closePc, sends, disturb, delivered, pushed,
                   yielded, quiet, ranSinceEvent, vvars>>

\* readFile rejects on a file that is there
SendReadFails(s) ==
    /\ snd[s].pc = "read"
    /\ file.k # "absent"
    /\ MayFail
    /\ disturb' = disturb + 1
    /\ AfterRead(s, NoFile, <<>>)
    /\ UNCHANGED <<now, file, fileIds, aborted, watcher, messageQueue, watch,
                   ev, swpc, jobs, recv, closePc, sends, delivered, pushed, yielded,
                   quiet, ranSinceEvent, vvars>>

\* writeFile replaces the file
SendWrite(s) ==
    /\ snd[s].pc = "write"
    /\ file' = snd[s].doc
    /\ fileIds' = snd[s].ids
    /\ ev' = Notify(ev)
    /\ snd' = [snd EXCEPT ![s].pc = "idle", ![s].outcome = "ok",
                  ![s].doc = NoFile, ![s].ids = <<>>]
    /\ UNCHANGED <<now, aborted, watcher, messageQueue, watch,
                   swpc, jobs, recv, closePc, sends, disturb, delivered, pushed, yielded,
                   quiet, ranSinceEvent, sentLog, vvars>>

\* writeFile rejects: caught and logged
SendWriteFails(s) ==
    /\ snd[s].pc = "write"
    /\ MayFail
    /\ disturb' = disturb + 1
    /\ snd' = [snd EXCEPT ![s].pc = "idle", ![s].outcome = "failed",
                  ![s].doc = NoFile, ![s].ids = <<>>]
    /\ UNCHANGED <<now, file, fileIds, aborted, watcher, messageQueue, watch, ev,
                   swpc, jobs, recv, closePc, sends, delivered, pushed, yielded,
                   quiet, ranSinceEvent, sentLog, vvars>>

(***************************************************************************)
(* extractMessages (lines 119-197) and its callers' continuations.         *)
(*                                                                         *)
(* A job is one debounced call (by = 0), waiting at pc "timer" for the     *)
(* left milliseconds of its timer, or the call startWatching makes at     *)
(* startup (by = the receiver whose generator made that startWatching     *)
(* call).                                                                  *)
(***************************************************************************)
Job(by, pc, left) == [by |-> by, pc |-> pc, left |-> left, doc |-> NoFile, ids |-> <<>>]

\* this.messageQueue.push(messages)
Enqueue(q, batch) == Append(q, batch)

\* extractMessages returned msgs (ok) or threw (~ok): what its caller does next.
\* The debounced callback pushes a non-empty result and ignores an exception;
\* startWatching pushes a non-empty result and goes on to create the watch, and
\* an exception ends it (nothing catches it there).
Finish(j, ok, msgs, ids) ==
    LET by == jobs[j].by
        push == ok /\ Len(msgs) > 0
        batch == [no |-> pushed + 1, msgs |-> msgs]
        times(i) == Cardinality({n \in 1..Len(ids) : ids[n] = i})
    IN /\ jobs' = RemoveAt(jobs, j)
       /\ messageQueue' = IF push THEN Enqueue(messageQueue, batch) ELSE messageQueue
       /\ pushed' = IF push THEN pushed + 1 ELSE pushed
       /\ delivered' = IF push
                       THEN [i \in DOMAIN delivered |-> delivered[i] + times(i)]
                       ELSE delivered
       /\ IF by = 0 THEN UNCHANGED <<watch, watcher, swpc>>
          ELSE IF ok
          THEN /\ watch' = [watch EXCEPT ![by] = "open"]
               /\ watcher' = by
               /\ swpc' = [swpc EXCEPT ![by] = "watching"]
          ELSE /\ swpc' = [swpc EXCEPT ![by] = "failed"]
               /\ UNCHANGED <<watch, watcher>>

\* a debounce timer runs out: the callback calls extractMessages
JobFire(j) ==
    /\ jobs[j].pc = "timer"
    /\ jobs[j].left = 0
    /\ jobs' = [jobs EXCEPT ![j].pc = "exists"]
    /\ ranSinceEvent' = TRUE
    /\ UNCHANGED <<now, file, fileIds, aborted, watcher, messageQueue, watch,
                   ev, swpc, recv, snd, closePc, sends, disturb, delivered, pushed,
                   yielded, quiet, sentLog, vvars>>

\* await exists(this.filePath): an absent file returns []
JobExists(j) ==
    /\ jobs[j].pc = "exists"
    /\ IF file.k = "absent"
       THEN Finish(j, TRUE, <<>>, <<>>)
       ELSE /\ jobs' = [jobs EXCEPT ![j].pc = "read"]
            /\ UNCHANGED <<watch, watcher, swpc, messageQueue, pushed, delivered>>
    /\ UNCHANGED <<now, file, fileIds, aborted, ev, recv, snd, closePc,
                   sends, disturb, yielded, quiet, ranSinceEvent, sentLog, vvars>>

\* await readFile(this.filePath), which rejects on a file gone meanwhile
JobRead(j) ==
    /\ jobs[j].pc = "read"
    /\ IF file.k # "absent"
       THEN /\ jobs' = [jobs EXCEPT ![j].pc = "unlink", ![j].doc = file, ![j].ids = fileIds]
            /\ UNCHANGED <<watch, watcher, swpc, messageQueue, pushed, delivered>>
       ELSE Finish(j, FALSE, <<>>, <<>>)
    /\ UNCHANGED <<now, file, fileIds, aborted, ev, recv, snd, closePc,
                   sends, disturb, yielded, quiet, ranSinceEvent, sentLog, vvars>>

\* readFile rejects on a file that is there
JobReadFails(j) ==
    /\ jobs[j].pc = "read"
    /\ file.k # "absent"
    /\ MayFail
    /\ disturb' = disturb + 1
    /\ Finish(j, FALSE, <<>>, <<>>)
    /\ UNCHANGED <<now, file, fileIds, aborted, ev, recv, snd, closePc,
                   sends, yielded, quiet, ranSinceEvent, sentLog, vvars>>

\* JobUnlink without the unlink: the file read stays in place
JobUnlinkKeepsFile(j) ==
    /\ jobs[j].pc = "unlink"
    /\ jobs' = [jobs EXCEPT ![j].pc = "parse"]
    /\ UNCHANGED <<file, fileIds, watch, watcher, swpc, messageQueue, pushed, delivered>>
    /\ UNCHANGED <<now, aborted, ev, recv, snd, closePc,
                   sends, disturb, yielded, quiet, ranSinceEvent, sentLog, vvars>>

\* await unlink(this.filePath), which rejects on a file gone meanwhile
JobUnlink(j) ==
    /\ jobs[j].pc = "unlink"
    /\ IF file.k # "absent"
       THEN /\ file' = NoFile
            /\ fileIds' = <<>>
            /\ jobs' = [jobs EXCEPT ![j].pc = "parse"]
            /\ UNCHANGED <<watch, watcher, swpc, messageQueue, pushed, delivered>>
       ELSE /\ Finish(j, FALSE, <<>>, <<>>)
            /\ UNCHANGED <<file, fileIds>>
    /\ UNCHANGED <<now, aborted, ev, recv, snd, closePc,
                   sends, disturb, yielded, quiet, ranSinceEvent, sentLog, vvars>>

\* unlink rejects on a file that is there
JobUnlinkFails(j) ==
    /\ jobs[j].pc = "unlink"
    /\ file.k # "absent"
    /\ MayFail
    /\ disturb' = disturb + 1
    /\ Finish(j, FALSE, <<>>, <<>>)
    /\ UNCHANGED <<now, file, fileIds, aborted, ev, recv, snd, closePc,
                   sends, yielded, quiet, ranSinceEvent, sentLog, vvars>>

\* JSON.parse, the validation loop and the return
JobParse(j) ==
    /\ jobs[j].pc = "parse"
    /\ LET res == ParseMessages(jobs[j].doc, now) IN
       Finish(j, res.ok, res.msgs, jobs[j].ids)
    /\ UNCHANGED <<now, file, fileIds, aborted, ev, recv, snd, closePc,
                   sends, disturb, yielded, quiet, ranSinceEvent, sentLog, vvars>>

(***************************************************************************)
(* startWatching (lines 68-108).                                           *)
(***************************************************************************)
\* await mkdir resolves, then the call of extractMessages
SwMkdir(r) ==
    /\ swpc[r] = "mkdir"
    /\ swpc' = [swpc EXCEPT ![r] = "extract"]
    /\ jobs' = Append(jobs, Job(r, "exists", 0))
    /\ UNCHANGED <<now, file, fileIds, aborted, watcher, messageQueue, watch,
                   ev, recv, snd, closePc, sends, disturb, delivered, pushed, yielded,
                   quiet, ranSinceEvent, sentLog, vvars>>

\* mkdir rejects, which ends startWatching
SwMkdirFails(r) ==
    /\ swpc[r] = "mkdir"
    /\ MayFail
    /\ disturb' = disturb + 1
    /\ swpc' = [swpc EXCEPT ![r] = "failed"]
    /\ UNCHANGED <<now, file, fileIds, aborted, watcher, messageQueue, watch,
                   ev, jobs, recv, snd, closePc, sends, delivered, pushed, yielded,
                   quiet, ranSinceEvent, sentLog, vvars>>

\* debounce(callback, this.debounceTimeMs)(): a debounced function made for
\* this one event and called once, so a timer of its own
Debounce(js) == Append(js, Job(0, "timer", debounceTimeMs))

\* one pass of the for await loop on a modify event of the mailbox file
WatchEvent(r) ==
    /\ swpc[r] = "watching"
    /\ watch[r] = "open"
    /\ ev[r] > 0
    /\ ev' = [ev EXCEPT ![r] = ev[r] - 1]
    /\ IF aborted
       THEN /\ swpc' = [swpc EXCEPT ![r] = "ended"]
            /\ watch' = [watch EXCEPT ![r] = "closed"]
            /\ UNCHANGED <<jobs, quiet, ranSinceEvent>>
       ELSE /\ jobs' = Debounce(jobs)
            /\ quiet' = 0
            /\ ranSinceEvent' = FALSE
            /\ UNCHANGED <<swpc, watch>>
    /\ UNCHANGED <<now, file, fileIds, aborted, watcher, messageQueue,
                   recv, snd, closePc, sends, disturb, delivered, pushed, yielded, sentLog, vvars>>

\* the loop ends when its watch has been closed (close() on Deno)
WatchClosed(r) ==
    /\ swpc[r] = "watching"
    /\ watch[r] = "closed"
    /\ swpc' = [swpc EXCEPT ![r] = "ended"]
    /\ UNCHANGED <<now, file, fileIds, aborted, watcher, messageQueue, watch,
                   ev, jobs, recv, snd, closePc, sends, disturb, delivered, pushed, yielded,
                   quiet, ranSinceEvent, sentLog, vvars>>

(***************************************************************************)
(* receiveData (lines 235-250).                                            *)
(***************************************************************************)
\* while (true): the flag is not looked at
LoopForever(ab) == TRUE

\* while (!this.aborted)
LoopGuard(ab) == ~ab

\* pop for shift: the newest batch is taken
Popped(q) == q[Len(q)]

\* this.messageQueue.shift(): the element taken and the queue left
Shifted(q) == Head(q)

\* the queue emptied where shift removes one batch
Cleared(q) == <<>>

AfterShift(q) == Tail(q)

\* from the loop's test to the next yield, sleep or return
RecvLoop(r) ==
    IF ~LoopGuard(aborted)
    THEN /\ recv' = [recv EXCEPT ![r] = [pc |-> "done", left |-> 0]]
         /\ UNCHANGED <<messageQueue, yielded>>
    ELSE IF Len(messageQueue) > 0
    THEN /\ yielded' = Append(yielded, Shifted(messageQueue).no)
         /\ messageQueue' = AfterShift(messageQueue)
         /\ recv' = [recv EXCEPT ![r] = [pc |-> "yielded", left |-> 0]]
    ELSE /\ recv' = [recv EXCEPT ![r] = [pc |-> "sleeping", left |-> debounceTimeMs]]
         /\ UNCHANGED <<messageQueue, yielded>>

\* the first next(): if (!this.watcher) this.startWatching(), which returns at
\* once on an aborted handle and otherwise runs up to its await of mkdir
RecvStart(r) ==
    /\ recv[r].pc = "new"
    /\ swpc' = IF watcher # 0 THEN swpc
               ELSE [swpc EXCEPT ![r] = IF aborted THEN "ended" ELSE "mkdir"]
    /\ RecvLoop(r)
    /\ UNCHANGED <<now, file, fileIds, aborted, watcher, watch, ev, jobs,
                   snd, closePc, sends, disturb, delivered, pushed, quiet, ranSinceEvent, sentLog, vvars>>

\* the consumer's next() after a yield
RecvNext(r) ==
    /\ recv[r].pc = "yielded"
    /\ RecvLoop(r)
    /\ UNCHANGED <<now, file, fileIds, aborted, watcher, watch, ev, swpc, jobs,
                   snd, closePc, sends, disturb, delivered, pushed, quiet, ranSinceEvent, sentLog, vvars>>

\* the setTimeout of an empty pass runs out
RecvWake(r) ==
    /\ recv[r].pc = "sleeping"
    /\ recv[r].left = 0
    /\ RecvLoop(r)
    /\ UNCHANGED <<now, file, fileIds, aborted, watcher, watch, ev, swpc, jobs,
                   snd, closePc, sends, disturb, delivered, pushed, quiet, ranSinceEvent, sentLog, vvars>>

(***************************************************************************)
(* close (lines 255-274).                                                  *)
(***************************************************************************)
\* the call up to its await: the flag, then the watcher, which is closed only
\* when CurrentRuntime is Deno (nothing else reads the runtime)
CloseCall(leaveFile, deno) ==
    /\ closePc = "none"
    /\ aborted' = TRUE
    /\ watch' = IF watcher # 0 /\ deno
                THEN [watch EXCEPT ![watcher] = "closed"] ELSE watch
    /\ closePc' = IF leaveFile THEN "done" ELSE "unlink"
    /\ UNCHANGED <<now, file, fileIds, watcher, messageQueue, ev, swpc, jobs,
                   recv, snd, sends, disturb, delivered, pushed, yielded,
                   quiet, ranSinceEvent, sentLog, vvars>>

\* await unlink(this.filePath), its rejection (no file) ignored
CloseUnlink ==
    /\ closePc = "unlink"
    /\ closePc' = "done"
    /\ file' = NoFile
    /\ fileIds' = <<>>
    /\ UNCHANGED <<now, aborted, watcher, messageQueue, watch, ev, swpc, jobs,
                   recv, snd, sends, disturb, delivered, pushed, yielded,
                   quiet, ranSinceEvent, sentLog, vvars>>

\* unlink rejects on a file that is there: ignored
CloseUnlinkFails ==
    /\ closePc = "unlink"
    /\ file.k # "absent"
    /\ MayFail
    /\ disturb' = disturb + 1
    /\ closePc' = "done"
    /\ UNCHANGED <<now, file, fileIds, aborted, watcher, messageQueue, watch, ev, swpc,
                   jobs, recv, snd, sends, delivered, pushed, yielded,
                   quiet, ranSinceEvent, sentLog, vvars>>

(***************************************************************************)
(* The environment: the clock, other programs, the file system's events.   *)
(***************************************************************************)
\* one millisecond passes: the clock advances and every timer runs down
Down(n) == IF n > 0 THEN n - 1 ELSE 0

Tick ==
    /\ now < MaxTime
    /\ now' = now + 1
    /\ jobs' = [j \in 1..Len(jobs) |-> [jobs[j] EXCEPT !.left = Down(@)]]
    /\ recv' = [r \in Receivers |-> [recv[r] EXCEPT !.left = Down(@)]]
    /\ quiet' = IF quiet < debounceTimeMs THEN quiet + 1 ELSE quiet
    /\ UNCHANGED <<file, fileIds, aborted, watcher, messageQueue, watch, ev,
                   swpc, snd, closePc, sends, disturb, delivered, pushed, yielded,
                   ranSinceEvent, sentLog, vvars>>

\* time passing after MaxTime: the clock is followed no further, the timers
\* that are set still run down
TickLate ==
    /\ now = MaxTime
    /\ \/ \E j \in 1..Len(jobs) : jobs[j].left > 0
       \/ \E r \in Receivers : recv[r].left > 0
    /\ jobs' = [j \in 1..Len(jobs) |-> [jobs[j] EXCEPT !.left = Down(@)]]
    /\ recv' = [r \in Receivers |-> [recv[r] EXCEPT !.left = Down(@)]]
    /\ quiet' = IF quiet < debounceTimeMs THEN quiet + 1 ELSE quiet
    /\ UNCHANGED <<now, file, fileIds, aborted, watcher, messageQueue, watch, ev,
                   swpc, snd, closePc, sends, disturb, delivered, pushed, yielded,
                   ranSinceEvent, sentLog, vvars>>

ExternalContents == {EmptyContent, MalformedContent, NoDataContent, Mailbox(<<Null>>)}

\* another program rewrites the mailbox file
ExternalWrite(c) ==
    /\ MayFail
    /\ disturb' = disturb + 1
    /\ file' = c
    /\ fileIds' = [i \in 1..Len(c.data) |-> 0]
    /\ ev' = Notify(ev)
    /\ UNCHANGED <<now, aborted, watcher, messageQueue, watch,
                   swpc, jobs, recv, snd, closePc, sends, delivered, pushed, yielded,
                   quiet, ranSinceEvent, sentLog, vvars>>

\* the file system reports a second modify event for a write
RepeatEvent(r) ==
    /\ MayFail
    /\ watch[r] = "open"
    /\ file.k # "absent"
    /\ disturb' = disturb + 1
    /\ ev' = [ev EXCEPT ![r] = ev[r] + 1]
    /\ UNCHANGED <<now, file, fileIds, aborted, watcher, messageQueue, watch,
                   swpc, jobs, recv, snd, closePc, sends, delivered, pushed, yielded,
                   quiet, ranSinceEvent, sentLog, vvars>>

\* the program's steps when no I/O call fails
Steps(Rs, Ss, Ds) ==
    \/ \E s \in Ss, d \in Ds : SendCall(s, d)
    \/ \E s \in Ss : SendRead(s)
    \/ \E s \in Ss : SendWrite(s)
    \/ \E j \in 1..Len(jobs) : JobFire(j)
    \/ \E j \in 1..Len(jobs) : JobExists(j)
    \/ \E j \in 1..Len(jobs) : JobRead(j)
    \/ \E j \in 1..Len(jobs) : JobUnlink(j)
    \/ \E j \in 1..Len(jobs) : JobParse(j)
    \/ \E r \in Rs : SwMkdir(r)
    \/ \E r \in Rs : WatchEvent(r)
    \/ \E r \in Rs : WatchClosed(r)
    \/ \E r \in Rs : RecvStart(r)
    \/ \E r \in Rs : RecvNext(r)
    \/ \E r \in Rs : RecvWake(r)
    \/ \E leaveFile, deno \in BOOLEAN : CloseCall(leaveFile, deno)
    \/ CloseUnlink
    \/ Tick

\* the environment's disturbances
Disturbances(Rs, Ss, Ds) ==
    \/ \E s \in Ss, d \in Ds : SendMkdirFails(s, d)
    \/ \E s \in Ss : SendReadFails(s)
    \/ \E s \in Ss : SendWriteFails(s)
    \/ \E j \in 1..Len(jobs) : JobReadFails(j)
    \/ \E j \in 1..Len(jobs) : JobUnlinkFails(j)
    \/ \E r \in Rs : SwMkdirFails(r)
    \/ CloseUnlinkFails
    \/ \E c \in ExternalContents : ExternalWrite(c)
    \/ \E r \in Rs : RepeatEvent(r)

\* one consumer of receiveData and the handle's own sendData calls
Next == Steps({1}, {1}, MainData)

Spec == Init /\ [][Next]_vars

\* sendData calls one after the other on an absent file, and then one
\* extraction: the one startWatching makes when receiveData is first pulled
NextSeq ==
    \/ \E d \in SendData : recv[1].pc = "new" /\ SendCall(1, d)
    \/ SendRead(1)
    \/ SendWrite(1)
    \/ snd[1].pc = "idle" /\ RecvStart(1)
    \/ SwMkdir(1)
    \/ \E j \in 1..Len(jobs) : JobExists(j)
    \/ \E j \in 1..Len(jobs) : JobRead(j)
    \/ \E j \in 1..Len(jobs) : JobUnlink(j)
    \/ \E j \in 1..Len(jobs) : JobParse(j)
    \/ RecvNext(1)
    \/ RecvWake(1)
    \/ Tick

SpecSeq == Init /\ [][NextSeq]_vars

\* two processes calling sendData on the same mailbox file, in any
\* interleaving of their reads and writes
NextSenders ==
    \/ \E s \in Senders, d \in SendData : SendCall(s, d)
    \/ \E s \in Senders : SendRead(s)
    \/ \E s \in Senders : SendWrite(s)
    \/ Tick

SpecSenders == Init /\ [][NextSenders]_vars

\* two receiveData generators started on the one handle, which is not closed
NextReceivers ==
    \/ \E r \in Receivers : RecvStart(r)
    \/ \E r \in Receivers : SwMkdir(r)
    \/ \E r \in Receivers : WatchEvent(r)
    \/ \E r \in Receivers : RecvNext(r)
    \/ \E r \in Receivers : RecvWake(r)
    \/ \E j \in 1..Len(jobs) : JobFire(j)
    \/ \E j \in 1..Len(jobs) : JobExists(j)
    \/ \E j \in 1..Len(jobs) : JobRead(j)
    \/ \E j \in 1..Len(jobs) : JobUnlink(j)
    \/ \E j \in 1..Len(jobs) : JobParse(j)
    \/ \E d \in MainData : SendCall(1, d)
    \/ SendRead(1)
    \/ SendWrite(1)
    \/ Tick

SpecReceivers == Init /\ [][NextReceivers]_vars

\* the handle never closed, with one consumer that keeps pulling: time
\* passes, the timer of the polling loop fires, and the consumer calls next()
\* again after every yield
NextLive ==
    \/ RecvStart(1)
    \/ SwMkdir(1)
    \/ WatchEvent(1)
    \/ RecvNext(1)
    \/ RecvWake(1)
    \/ \E j \in 1..Len(jobs) : JobFire(j)
    \/ \E j \in 1..Len(jobs) : JobExists(j)
    \/ \E j \in 1..Len(jobs) : JobRead(j)
    \/ \E j \in 1..Len(jobs) : JobUnlink(j)
    \/ \E j \in 1..Len(jobs) : JobParse(j)
    \/ \E d \in MainData : SendCall(1, d)
    \/ SendRead(1)
    \/ SendWrite(1)
    \/ Tick
    \/ TickLate

SpecLive ==
    /\ Init
    /\ [][NextLive]_vars
    /\ WF_vars(Tick \/ TickLate)
    /\ WF_vars(RecvWake(1))
    /\ WF_vars(RecvNext(1))

\* the handle with at most MaxDisturb failed I/O calls or foreign writes
NextFaults == Steps({1}, {1}, MainData) \/ Disturbances({1}, {1}, MainData)

SpecFaults == Init /\ [][NextFaults]_vars

(***************************************************************************)
(* The inputs validation is checked on.                                    *)
(***************************************************************************)
PidVals == {Num(1), Digits(7), Rep("a", 1), Undefined, Null}
SentVals == {IsoString(t) : t \in Times} \cup {Rep("a", 1), Undefined, Null}
DataVals == {Undefined, Null, Num(1), Rep("", 0), Rep("a", 1),
             Rep("x", MAX_DATA_LENGTH - 1), Rep("x", MAX_DATA_LENGTH),
             Rep("x", 2 * MAX_DATA_LENGTH)}
AllEntries == {Obj(p, s, d) : p \in PidVals, s \in SentVals, d \in DataVals}
                \cup {Null, Num(5), Rep("a", 1)}
FewEntries == {Null, Num(5),
               Obj(Num(1), IsoString(0), Rep("a", 1)),
               Obj(Undefined, Rep("a", 1), Null),
               Obj(Digits(7), IsoString(MaxTime), Rep("x", MAX_DATA_LENGTH)),
               Obj(Null, Undefined, Num(1))}

RECURSIVE SeqsUpTo(_, _)
SeqsUpTo(S, n) ==
    IF n = 0 THEN {<<>>}
    ELSE LET shorter == SeqsUpTo(S, n - 1) IN
         shorter \cup {Append(q, e) : q \in {x \in shorter : Len(x) = n - 1}, e \in S}

Contents == {EmptyContent, MalformedContent, NoDataContent}
              \cup {Mailbox(<<e>>) : e \in AllEntries}
              \cup {Mailbox(q) : q \in SeqsUpTo(FewEntries, MaxEntries)}

InitValidate ==
    /\ InitHandle
    /\ vContent \in Contents
    /\ vNow \in Times
    /\ vOut = [ok |-> FALSE, msgs |-> <<>>]
    /\ vpc = "ready"

\* the parse-and-validate part of one extraction, at instant vNow
Validate ==
    /\ vpc = "ready"
    /\ vOut' = ParseMessages(vContent, vNow)
    /\ vpc' = "done"
    /\ UNCHANGED <<vContent, vNow>>
    /\ UNCHANGED hvars

NextValidate == Validate

SpecValidate == InitValidate /\ [][NextValidate]_vars

(***************************************************************************)
(* The claims.                                                             *)
(***************************************************************************)
Has(errs, e) == \E i \in 1..Len(errs) : errs[i] = e

\* C1: a burst of modify events (each less than debounceTimeMs after the one
\* before) leads to one extraction, which starts only after debounceTimeMs
\* without an event: whenever a debounced extraction starts, the last event
\* is at least debounceTimeMs old and no debounced extraction has started
\* since that event.
C1_OneExtractionPerBurst ==
    [][\A j \in 1..Len(jobs) :
          JobFire(j) => (quiet >= debounceTimeMs /\ ~ranSinceEvent)]_vars

\* C2: the entry written by one sendData call is pushed onto messageQueue in
\* at most one batch.
C2_ExtractedAtMostOnce == \A i \in DOMAIN delivered : delivered[i] <= 1

\* C3 as stated: N sendData calls in a row and then one extraction give one
\* batch of N messages whose data are the strings sent, in the order sent.
C3_BatchHoldsSentStrings ==
    (swpc[1] = "watching" /\ sends >= 1) =>
        /\ pushed = 1
        /\ \A b \in 1..Len(messageQueue) :
             /\ Len(messageQueue[b].msgs) = sends
             /\ \A i \in 1..sends : messageQueue[b].msgs[i].data = sentLog[i].data

\* C3 as amended: N sendData calls in a row and then one extraction give one
\* batch of N messages in the order sent, the i-th with the pid and the
\* timestamp of the i-th call; its data is the i-th string sent when its
\* errors are empty, and absent otherwise.
C3_BatchInSendOrder ==
    (swpc[1] = "watching" /\ sends >= 1) =>
        /\ pushed = 1
        /\ \A b \in 1..Len(messageQueue) :
             /\ Len(messageQueue[b].msgs) = sends
             /\ \A i \in 1..sends :
                  LET m == messageQueue[b].msgs[i] IN
                  /\ m.pid = Num(1)
                  /\ m.sent = DateOf(sentLog[i].at)
                  /\ m.errors = <<>> => m.data = sentLog[i].data
                  /\ m.errors # <<>> => m.data = Null

\* two calls were made, and the batch holds the string of the first and no
\* data for the second, which was too long
C3_Witness ==
    /\ swpc[1] = "watching"
    /\ sends = 2
    /\ Len(messageQueue) = 1
    /\ Len(messageQueue[1].msgs) = 2
    /\ messageQueue[1].msgs[1].data = Rep("a", 1)
    /\ messageQueue[1].msgs[2].data = Null
    /\ sentLog[2].data = Rep("x", MAX_DATA_LENGTH)

\* C4: receiveData yields the batches in the order they were pushed, each at
\* most once, and always the oldest one queued: the batches yielded so far
\* followed by those still queued are the batches pushed, in push order.
C4_QueueIsFifo ==
    yielded \o [i \in 1..Len(messageQueue) |-> messageQueue[i].no]
        = [i \in 1..pushed |-> i]

\* a batch was yielded while a younger one was queued behind it
C4_Witness == Len(yielded) >= 1 /\ Len(messageQueue) >= 1

\* C5: once close() has been called (aborted is set) no generator yields a
\* batch, and the next step of every generator, started before or after the
\* close, ends it, whatever is queued or written; a generator never ends
\* while the handle is open.
C5_ClosedReceiveEnds ==
    [][/\ aborted => yielded' = yielded
       /\ \A r \in Receivers :
            /\ (aborted /\ recv'[r].pc # recv[r].pc) => recv'[r].pc = "done"
            /\ recv'[r].pc = "done" => aborted]_vars

\* a generator has ended after close() with a batch still queued
C5_Witness == aborted /\ recv[1].pc = "done" /\ Len(messageQueue) >= 1

\* C6: a sendData call made on the handle after close() fails with an error
\* and writes nothing: it never gets to writeFile, and it ends by rejecting.
C6_SendFailsAfterClose ==
    \A s \in Senders :
        snd[s].closedAtCall =>
            /\ snd[s].pc # "write"
            /\ snd[s].outcome # "ok"
            /\ snd[s].pc = "idle" => snd[s].outcome = "threw"

\* C7: once close() has completed the handle starts no extraction, neither
\* reads nor deletes the mailbox file, creates no watch and pushes no batch.
C7_CloseStopsWatcher ==
    [][closePc = "done" =>
          /\ pushed' = pushed
          /\ \A r \in Receivers : watch'[r] = "open" => watch[r] = "open"
          /\ ~ \E r \in Receivers : SwMkdir(r)
          /\ ~ \E j \in 1..Len(jobs) : JobFire(j) \/ JobRead(j) \/ JobUnlink(j)]_vars

\* C8: a file that parses to an object with a data array of k entries gives
\* k messages, the i-th made from the i-th entry, whatever the entries are.
C8_ValidationNeverAborts ==
    (vpc = "done" /\ vContent.k = "mailbox") =>
        /\ vOut.ok
        /\ Len(vOut.msgs) = Len(vContent.data)
        /\ \A i \in 1..Len(vContent.data) :
             vOut.msgs[i] = ValidateEntry(vContent.data[i], vNow)

\* a file of two entries, the first null, gave two messages
C8_Witness ==
    /\ vpc = "done"
    /\ vContent.k = "mailbox"
    /\ Len(vContent.data) = 2
    /\ vContent.data[1] = Null
    /\ vOut.ok
    /\ Len(vOut.msgs) = 2

\* C9: an entry sendData built at T from a string shorter than
\* MAX_DATA_LENGTH (the empty string too), validated at an instant from T to
\* T + staleMessageLimitMs, gives that string as data and no errors.
C9_SentDataComesBack ==
    \A d \in {x \in DataVals : x.t = "string"}, T \in Times :
        ( /\ vpc = "done"
          /\ Length(d) < MAX_DATA_LENGTH
          /\ vContent = Mailbox(<<SendEntry(1, d, T)>>)
          /\ T <= vNow
          /\ vNow <= T + staleMessageLimitMs ) =>
            /\ vOut.ok
            /\ vOut.msgs[1].data = d
            /\ vOut.msgs[1].errors = <<>>

\* the entries of the drawn file whose data is a string of MAX_DATA_LENGTH
\* characters or more
LongEntries ==
    {i \in 1..Len(vContent.data) :
        /\ vContent.data[i].t = "object"
        /\ vContent.data[i].data.t = "string"
        /\ Length(vContent.data[i].data) >= MAX_DATA_LENGTH}

\* entry i carries a sent that parses and is no older than the limit
SentInLimit(i) ==
    /\ vContent.data[i].sent.t = "string"
    /\ vContent.data[i].sent.k = "iso"
    /\ vNow - vContent.data[i].sent.n <= staleMessageLimitMs

\* C10 as stated: an entry whose data is a string of MAX_DATA_LENGTH
\* characters or more gives no data and the error "too long", whatever its
\* pid and sent.
C10_LongDataAlwaysTooLong ==
    (vpc = "done" /\ vContent.k = "mailbox") =>
        \A i \in LongEntries :
            /\ vOut.msgs[i].data = Null
            /\ Has(vOut.msgs[i].errors, ErrTooLong)

\* C10 as amended: such an entry always gives no data; its errors hold "too
\* long" when its sent parses and is within staleMessageLimitMs, and
\* otherwise hold "stale" and not "too long".
C10_LongDataNeverAccepted ==
    (vpc = "done" /\ vContent.k = "mailbox") =>
        \A i \in LongEntries :
            /\ vOut.msgs[i].data = Null
            /\ IF SentInLimit(i)
               THEN Has(vOut.msgs[i].errors, ErrTooLong)
               ELSE /\ Has(vOut.msgs[i].errors, ErrStale)
                    /\ ~Has(vOut.msgs[i].errors, ErrTooLong)

\* a string of exactly MAX_DATA_LENGTH characters, fresh, was refused
C10_Witness ==
    /\ vpc = "done"
    /\ vContent = Mailbox(<<Obj(Num(1), IsoString(0), Rep("x", MAX_DATA_LENGTH))>>)
    /\ vNow = 0
    /\ vOut.msgs[1].data = Null
    /\ vOut.msgs[1].errors = <<ErrTooLong>>

\* entry i is an object whose sent parses and is no older than the limit
FreshSent(i) == vContent.data[i].t = "object" /\ SentInLimit(i)

\* C11: an entry whose sent is unparseable or more than staleMessageLimitMs
\* before the validation instant gives no data and the error "stale"; an
\* entry whose sent parses and is at most staleMessageLimitMs old (exactly
\* that old too) does not get the error "stale".
C11_StaleIffBeyondLimit ==
    (vpc = "done" /\ vContent.k = "mailbox") =>
        \A i \in 1..Len(vContent.data) :
            IF FreshSent(i)
            THEN ~Has(vOut.msgs[i].errors, ErrStale)
            ELSE /\ vOut.msgs[i].data = Null
                 /\ Has(vOut.msgs[i].errors, ErrStale)

\* an entry exactly staleMessageLimitMs old was validated and kept its data
C11_Witness ==
    /\ vpc = "done"
    /\ vContent = Mailbox(<<Obj(Num(1), IsoString(0), Rep("a", 1))>>)
    /\ vNow = staleMessageLimitMs
    /\ vOut.msgs[1].data = Rep("a", 1)
    /\ vOut.msgs[1].errors = <<>>

\* C16: an entry whose pid does not parse as an integer gives pid absent and
\* the error for pid, and an entry whose sent does not parse as a timestamp
\* gives sent absent and the error for sent.
C16_ParseFailuresRecorded ==
    (vpc = "done" /\ vContent.k = "mailbox") =>
        \A i \in 1..Len(vContent.data) :
            LET e == vContent.data[i]
                m == vOut.msgs[i] IN
            /\ (PropThrows(e) \/ ParseInt(Prop(e, "pid")) = NaN) =>
                   (m.pid = Null /\ Has(m.errors, ErrPid))
            /\ (PropThrows(e) \/ ParseDate(Prop(e, "sent")) = InvalidDate) =>
                   (m.sent = Null /\ Has(m.errors, ErrSent))

\* C17: a mailbox file of zero bytes is extracted as zero entries, without a
\* failure.
C17_EmptyFileIsEmptyMailbox ==
    (vpc = "done" /\ vContent = EmptyContent) => (vOut.ok /\ vOut.msgs = <<>>)

\* C12: sendData never rejects: whichever of its steps fails (mkdir,
\* readFile, JSON.parse, writeFile), the call ends by reporting the failure
\* and not by throwing.
C12_SendNeverThrows == \A s \in Senders : snd[s].outcome # "threw"

\* C13: a failure of the extraction startWatching makes at startup does not
\* end startWatching: when that extraction is over, however it ended,
\* startWatching goes on to create the directory watch and to wait for events.
C13_FailureKeepsWatcher ==
    [][\A r \in Receivers :
          (swpc[r] = "extract" /\ swpc'[r] # "extract") => swpc'[r] = "watching"]_vars

\* C14: the step by which an extraction gets past its unlink leaves the
\* mailbox file absent, and an extraction that finds the file absent returns
\* no entries without failing: it pushes nothing onto messageQueue.
C14_ExtractionEmptiesMailbox ==
    [][\A j \in 1..Len(jobs) :
          /\ ( /\ jobs[j].pc = "unlink"
               /\ Len(jobs') = Len(jobs)
               /\ jobs'[j].pc = "parse" ) => file'.k = "absent"
          /\ (file.k = "absent" /\ JobExists(j)) =>
                 /\ messageQueue' = messageQueue
                 /\ pushed' = pushed
                 /\ jobs[j].by # 0 => swpc'[jobs[j].by] = "watching"]_vars

\* an extraction has pushed a batch, no send is under way, and a second
\* extraction is at its existence check with the file absent
C14_Witness ==
    /\ pushed >= 1
    /\ file.k = "absent"
    /\ snd[1].pc = "idle"
    /\ ~aborted
    /\ \E j \in 1..Len(jobs) : jobs[j].by = 0 /\ jobs[j].pc = "exists"

\* the calls of extractMessages that are past their existence check and have
\* not returned
InFlight == {j \in 1..Len(jobs) : jobs[j].pc \in {"read", "unlink", "parse"}}

\* C15: at most one extraction of the handle is between its existence check
\* and its return.
C15_OneExtractionInFlight == Cardinality(InFlight) <= 1

\* every sendData call made so far has completed, and completed normally
AllSent == \A s \in Senders : snd[s].pc = "idle" /\ snd[s].outcome \in {"none", "ok"}

\* C18: when no two sendData calls of the two processes overlapped, the file
\* holds the entry of every call, in call order, once they have completed
\* (two calls that overlap can leave the entry of one alone: the witness).
C18_SendsApartKeepBoth ==
    (AllSent /\ \A s \in Senders : ~snd[s].overlapped) =>
        /\ Len(file.data) = sends
        /\ fileIds = [i \in 1..sends |-> i]

\* both processes' calls overlapped and completed normally, and the file
\* holds one entry
C18_Witness ==
    /\ AllSent
    /\ sends = 2
    /\ snd[1].outcome = "ok" /\ snd[2].outcome = "ok"
    /\ snd[1].overlapped /\ snd[2].overlapped
    /\ Len(file.data) = 1

\* C19: the handle starts its watcher once: at most one receiver's
\* startWatching call runs a startup extraction, and at most one creates a
\* directory watch.
C19_WatcherStartedOnce ==
    /\ Cardinality({r \in Receivers : \E j \in 1..Len(jobs) : jobs[j].by = r}) <= 1
    /\ Cardinality({r \in Receivers : watch[r] # "none"}) <= 1

\* C20: on a handle that is never closed, with a consumer that keeps
\* pulling, every batch pushed onto messageQueue is eventually yielded by
\* receiveData, and messageQueue never holds an empty batch.
C20_PushedIsYielded ==
    /\ [](\A b \in 1..Len(messageQueue) : Len(messageQueue[b].msgs) > 0)
    /\ \A n \in 1..MaxSends :
         (pushed >= n) ~> (\E i \in 1..Len(yielded) : yielded[i] = n)

\* two batches were pushed and both have been yielded
C20_Witness ==
    /\ ~aborted
    /\ pushed = 2
    /\ yielded = <<1, 2>>
    /\ messageQueue = <<>>

====
